---- MODULE Spec2Model ----
(***************************************************************************)
(* Model of the itinerary engine of KORA's backend:                        *)
(*   backend/app/agent/tools.py       create_multiple_itineraries,         *)
(*                                    calculate_travel_details             *)
(*   backend/app/services/travel_data_api.py  fetch_distance_between_cities*)
(* and of the day-plan scheduling strategies of the design document.       *)
(*                                                                         *)
(* Numbers.  Python floats are modelled in fixed point:                    *)
(*   total_distance_km, carbon_emissions_kg   in hundredths (2 decimals),  *)
(*   estimated_drive_time_hours               in tenths (1 decimal),       *)
(*   prices                                   in cents,                    *)
(*   provider distances                       in whole metres.             *)
(* round(x, k) of a binary float resolves an exact decimal tie by the      *)
(* float's representation, so a tie is a choice between both neighbours.   *)
(***************************************************************************)
EXTENDS Integers, Sequences, FiniteSets

(* ------------------------------ bounds --------------------------------- *)
MaxCities == 3            \* longest city list of a request
MaxOffers == 2            \* longest flight-provider response
MaxPois == 5              \* longest point-of-interest list
MaxDays == 3              \* largest day count
MaxFragments == 2         \* most fragments in an agent output
MaxSaves == 2             \* most itineraries stored
MaxCallers == 2           \* concurrent create_or_get_user calls
MaxFlights == 3           \* longest short answer of the flight search

Min(a, b) == IF a < b THEN a ELSE b

(* ------------------------- program constants --------------------------- *)
MaxPermutations == 5      \* tools.py:368  min(5, len(city_permutations))
FirstOffers == 50         \* tools.py:563  flights[:50]
MaxFlightOptions == 10    \* tools.py:589  stop at 10 flights

CityNames == <<"Paris", "Lyon", "Nice", "Lille", "Metz", "Brest">>
\* city lists a request may carry: the prefixes of CityNames
CityLists == {SubSeq(CityNames, 1, n) : n \in 0..Min(MaxCities, Len(CityNames))}
\* road distances (metres) the distance provider may report for one leg
LegMeters == {300021, 300071}

None == [none |-> TRUE]

(* ------------------------------ helpers -------------------------------- *)
Range(s) == {s[k] : k \in 1..Len(s)}

\* round(num/den) to the nearest integer; both neighbours on an exact tie
RoundNearest(num, den) ==
    LET q == num \div den
        r == num % den
    IN  IF 2 * r < den THEN {q}
        ELSE IF 2 * r > den THEN {q + 1}
        ELSE {q, q + 1}

(* ----------------- coercion of the `cities` argument ------------------- *)
\* A Python value: a list of strings, or something that is not a list.
PyList(s) == [isList |-> TRUE, val |-> s]
NotAList == [isList |-> FALSE, val |-> <<>>]

\* The raw `cities` argument, by the branch of the type sniffing it takes:
\*   "list"        a list
\*   "dict"        a dict; hasKey says whether it has a 'cities' entry
\*   "json_str"    a str starting with '{' that json.loads accepts
\*   "pydict_str"  a str starting with '{' that only ast.literal_eval accepts
\*   "brace_str"   a str starting with '{' that neither parser accepts
\*   "literal_str" any other str that ast.literal_eval accepts
\*   "plain_str"   any other str; payload = its comma-separated tokens
\*   "other"       neither dict, str nor list (None, a number)
Arg(kind, hasKey, payload) == [kind |-> kind, hasKey |-> hasKey, payload |-> payload]

\* parsed.get('cities', [])
GetCities(a) == IF a.hasKey THEN a.payload ELSE PyList(<<>>)

CoerceCities(a) ==
    LET v == CASE a.kind = "list" -> a.payload
               [] a.kind \in {"dict", "json_str", "pydict_str"} -> GetCities(a)
               [] a.kind = "brace_str" -> PyList(<<>>)
               [] a.kind = "literal_str" -> a.payload
               [] a.kind = "plain_str" -> PyList(a.payload.val)
               [] OTHER -> a.payload
    IN  IF v.isList THEN v.val ELSE <<>>

\* len(cities) < 1
TooFewCitiesMut(c) == Len(c) < 0
TooFewCities(c) == Len(c) < 1

ErrorRecordMut == [message |-> "Please provide at least 1 city to create itinerary options"]
ErrorRecord == [error |-> "Need at least 1 city to create itineraries"]

(* --------------------------- permutations ------------------------------ *)
Remove(s, k) == SubSeq(s, 1, k - 1) \o SubSeq(s, k + 1, Len(s))

\* itertools.permutations: lexicographic in the positions of the input
RECURSIVE CityPermutations(_)
CityPermutations(s) ==
    IF s = <<>> THEN << <<>> >>
    ELSE LET Block(k) == LET ps == CityPermutations(Remove(s, k))
                         IN  [j \in 1..Len(ps) |-> <<s[k]>> \o ps[j]]
             RECURSIVE Cat(_)
             Cat(k) == IF k > Len(s) THEN <<>> ELSE Block(k) \o Cat(k + 1)
         IN  Cat(1)

\* the input order reversed, and with the two elements at the midpoint exchanged
Reversed(c) == [k \in 1..Len(c) |-> c[Len(c) + 1 - k]]
MiddleSwap(c) ==
    LET m == Len(c) \div 2
    IN  [k \in 1..Len(c) |-> IF k = m THEN c[m + 1] ELSE IF k = m + 1 THEN c[m] ELSE c[k]]

SelectPermutationsDiverseMut(c) ==
    IF Len(c) = 1 THEN << c >>
    ELSE LET ps == CityPermutations(c)
         IN  IF Len(ps) <= MaxPermutations THEN ps
             ELSE SubSeq(ps, 1, MaxPermutations - 2) \o <<Reversed(c), MiddleSwap(c)>>

SelectPermutationsMut(c) ==
    IF Len(c) = 1 THEN << c >>
    ELSE LET ps == CityPermutations(c) IN SubSeq(ps, 1, Min(MaxPermutations + 1, Len(ps)))
SelectPermutations(c) ==
    IF Len(c) = 1 THEN << c >>
    ELSE LET ps == CityPermutations(c) IN SubSeq(ps, 1, Min(MaxPermutations, Len(ps)))

(* ----------------------- the distance provider ------------------------- *)
\* What one POST to the directions API can end in (travel_data_api.py:477-536):
\*   "ok"        200 with a route summary: adds its metres
\*   "estimate"  400 "distance must not be greater than": adds the 1.3 x
\*               straight-line estimate
\*   "http_error" any other non-200 status: logged, the loop continues
\*   "empty"     200 without routes/features/summary: logged, nothing added
\*   "timeout"   requests raises: the whole call returns None
LegOutcomes ==
    {[kind |-> k, meters |-> m] : k \in {"ok", "estimate"}, m \in LegMeters}
    \cup {[kind |-> k, meters |-> 0] : k \in {"http_error", "empty", "timeout"}}

\* metres one leg adds to total_distance
LegContribution(leg) ==
    IF leg.kind \in {"ok", "estimate"} THEN leg.meters ELSE 0

RECURSIVE SumLegs(_)
SumLegs(legs) ==
    IF legs = <<>> THEN 0 ELSE LegContribution(legs[1]) + SumLegs(Tail(legs))

Unresolved(legs) == Cardinality({k \in 1..Len(legs) : legs[k].kind \in {"http_error", "empty"}})

\* fetch_distance_between_cities(cities): coordsOk says whether every city's
\* coordinates resolved and the API key is set; legs[k] is the outcome of the
\* request for the k-th leg.  Returns None or the result dict (with the number
\* of legs that added nothing, which the code does not report).
FetchDistanceUnresolvedMut(route, coordsOk, legs) ==
    IF Len(route) < 2 THEN None
    ELSE IF \E k \in 1..Len(legs) : legs[k].kind = "timeout" THEN None
    ELSE [none |-> FALSE,
          total_distance_meters |-> SumLegs(legs),
          unresolved_legs |-> Unresolved(legs)]

FetchDistanceBetweenCities(route, coordsOk, legs) ==
    IF Len(route) < 2 THEN None
    ELSE IF ~coordsOk THEN None
    ELSE IF \E k \in 1..Len(legs) : legs[k].kind = "timeout" THEN None
    ELSE [none |-> FALSE,
          total_distance_meters |-> SumLegs(legs),
          unresolved_legs |-> Unresolved(legs)]

\* the requests one call of fetch_distance_between_cities issues: whether the
\* coordinates of every city resolved, and the number of distance requests
Lookup(route, coordsOk, legs) ==
    [coords |-> coordsOk, distance_requests |-> Len(legs)]

\* every way one call of fetch_distance_between_cities(route) can go: the
\* coordinates resolve or not, each leg's request has one of its outcomes
DistanceLookups(route) ==
    UNION {{[result |-> FetchDistanceBetweenCities(route, coordsOk, legs),
             lookup |-> Lookup(route, coordsOk, legs)] :
               legs \in [1..(IF Len(route) < 2 \/ ~coordsOk THEN 0 ELSE Len(route) - 1)
                           -> LegOutcomes]} :
           coordsOk \in BOOLEAN}

\* a single-city route is evaluated without any lookup (tools.py:376-383)
NoLookup == [coords |-> TRUE, distance_requests |-> 0]

\* carbon_emissions_kg (hundredths) for a total in metres:
\* round(metres / 1000 * 0.12, 2)
CarbonOfMetersMut(m) == UNION {RoundNearest(12 * d, 100) : d \in RoundNearest(m, 10)}
CarbonOfMeters(m) == RoundNearest(12 * m, 1000)

CalculateTravelDetailsMut(route, result) ==
    IF Len(route) < 2 \/ result.none
    THEN {[error |-> FALSE, total_distance_km |-> 0, carbon_emissions_kg |-> 0]}
    ELSE {[error |-> FALSE, total_distance_km |-> d, carbon_emissions_kg |-> c] :
            d \in RoundNearest(result.total_distance_meters, 10),
            c \in RoundNearest(12 * result.total_distance_meters, 1000)}

\* calculate_travel_details(cities): the set of dicts it can return (one,
\* unless a rounding falls on an exact tie)
CalculateTravelDetails(route, result) ==
    IF Len(route) < 2 \/ result.none
    THEN {[error |-> TRUE, total_distance_km |-> 0, carbon_emissions_kg |-> 0]}
    ELSE {[error |-> FALSE, total_distance_km |-> d, carbon_emissions_kg |-> c] :
            d \in RoundNearest(result.total_distance_meters, 10),
            c \in CarbonOfMeters(result.total_distance_meters)}

(* ------------------------ the flight provider -------------------------- *)
\* the 'price' of one offer: a number (cents), or something float() rejects
OfferPrices ==
    {[numeric |-> TRUE, cents |-> c] : c \in {0, 45000, 52000}}
    \cup {[numeric |-> FALSE, cents |-> 0]}

RECURSIVE SeqsUpTo(_, _)
SeqsUpTo(S, n) ==
    IF n = 0 THEN {<<>>}
    ELSE LET shorter == SeqsUpTo(S, n - 1)
         IN  shorter \cup {Append(s, x) : s \in {t \in shorter : Len(t) = n - 1}, x \in S}

FlightResponses == SeqsUpTo(OfferPrices, MaxOffers)

\* the prices kept from a provider response: truthy, numeric, > 0
RECURSIVE ExtractPrices(_)
ExtractPrices(flights) ==
    IF flights = <<>> THEN <<>>
    ELSE LET p == flights[1]
         IN  (IF p.numeric /\ p.cents > 0 THEN <<p.cents>> ELSE <<>>)
             \o ExtractPrices(Tail(flights))

\* get_iata_code: None without an API key or for an unknown city
IataCodes(city) == IF city = "New York" THEN {"", "JFK"} ELSE {""}
\* destination_airports.get(destination_country.lower())
DestinationAirport(country) == IF country = "France" THEN "CDG" ELSE ""

\* flight_costs[i] if i < len(flight_costs) else (flight_costs[0] if flight_costs else 0)
\* (i counts from 0)
FlightCostNoFallbackMut(i, costs) ==
    IF i < Len(costs) THEN costs[i + 1] ELSE 0

FlightCostFor(i, costs) ==
    IF i < Len(costs) THEN costs[i + 1]
    ELSE IF costs # <<>> THEN costs[1] ELSE 0

(* --------------------------- flight options ---------------------------- *)
\* tools.py:571
ExcludedAirlines == {"Frontier", "Spirit", "Allegiant", "Sun Country"}

\* offers of the flight provider: an airline and a price in cents
Airlines == {"Air France", "Delta", "Spirit"}
Offers == {[airline |-> a, price |-> c] : a \in Airlines, c \in {45000, 52000}}

RECURSIVE Repeat(_, _)
Repeat(x, n) == IF n = 0 THEN <<>> ELSE <<x>> \o Repeat(x, n - 1)

\* The answers of search_flights explored: every short one, and long ones
\* that reach the two cut-offs (a run of one offer, then more than
\* MaxFlightOptions of another, the run either empty or ending shortly before
\* position FirstOffers).
SearchResponses ==
    SeqsUpTo(Offers, MaxFlights)
    \cup {Repeat(x, n) \o Repeat(y, MaxFlightOptions + 1) :
             x \in Offers, y \in Offers, n \in {0, FirstOffers - 5}}

\* tools.py:574-584: the option made from an offer
FlightOption(flight) == [airline |-> flight.airline, price |-> flight.price]

\* tools.py:563-590: the loop over the offers, from the state it has reached
RECURSIVE FilterFlights(_, _, _)
FilterFlights(rest, options, unique_airlines) ==
    IF rest = <<>> THEN options
    ELSE LET flight == rest[1]
             airline == flight.airline
         IN  IF airline \in unique_airlines /\ Len(options) >= MaxFlightOptions
             THEN FilterFlights(Tail(rest), options, unique_airlines)
             ELSE IF airline \in ExcludedAirlines
             THEN FilterFlights(Tail(rest), options, unique_airlines)
             ELSE LET appended == Append(options, FlightOption(flight))
                  IN  IF Len(appended) >= MaxFlightOptions THEN appended
                      ELSE FilterFlights(Tail(rest), appended, unique_airlines \cup {airline})

\* tools.py:558-592
FlightOptions(response) ==
    FilterFlights(SubSeq(response, 1, Min(FirstOffers, Len(response))), <<>>, {})

(* ------------------------------ ranking -------------------------------- *)
\* key of itinerary_options.sort
SortKeyMut(o) == 0 - o.carbon_emissions_kg
SortKey(o) == o.carbon_emissions_kg

RECURSIVE InsertSortedMut(_, _)
InsertSortedMut(sorted, o) ==
    IF sorted = <<>> THEN <<o>>
    ELSE IF SortKey(sorted[1]) < SortKey(o)
         THEN <<sorted[1]>> \o InsertSortedMut(Tail(sorted), o)
         ELSE <<o>> \o sorted

RECURSIVE InsertSortedRenumberMut(_, _)
InsertSortedRenumberMut(sorted, o) ==
    IF sorted = <<>> THEN <<o>>
    ELSE IF SortKey(sorted[1]) <= SortKey(o)
         THEN <<sorted[1]>> \o InsertSortedRenumberMut(Tail(sorted), o)
         ELSE <<[o EXCEPT !.id = 1]>> \o sorted

\* list.sort is stable: insert each element after the elements with a key <= its own
RECURSIVE InsertSorted(_, _)
InsertSorted(sorted, o) ==
    IF sorted = <<>> THEN <<o>>
    ELSE IF SortKey(sorted[1]) <= SortKey(o)
         THEN <<sorted[1]>> \o InsertSorted(Tail(sorted), o)
         ELSE <<o>> \o sorted

RECURSIVE SortOptions(_)
SortOptions(opts) ==
    IF opts = <<>> THEN <<>>
    ELSE InsertSorted(SortOptions(SubSeq(opts, 1, Len(opts) - 1)), opts[Len(opts)])

(* --------------------------- day-plan scheduling ----------------------- *)
\* The four strategies of schedule(poi_list, day_count), from section 4.5 of
\* the design document.  A DayPlan is [day |-> 1-based index, pois |-> names].
PoiNames == {"Louvre", "Eiffel", "Orsay"}

DayPlan(k, pois) == [day |-> k, pois |-> pois]

\* SubSeq(s, from, to), empty when the slice starts past the end
Slice(s, from, to) ==
    IF from > Min(to, Len(s)) THEN <<>> ELSE SubSeq(s, from, Min(to, Len(s)))

BalancedMut(poi_list, day_count) ==
    LET m == Len(poi_list)
        per_day == (m + day_count - 1) \div day_count
    IN  [k \in 1..day_count |->
           DayPlan(k, Slice(poi_list, (k - 1) * per_day + 1, k * per_day))]

\* Balanced: floor(m/d) per day for the first d-1 days, the rest on the final day
Balanced(poi_list, day_count) ==
    LET m == Len(poi_list)
        per_day == m \div day_count
    IN  [k \in 1..day_count |->
           DayPlan(k, IF k < day_count
                      THEN Slice(poi_list, (k - 1) * per_day + 1, k * per_day)
                      ELSE Slice(poi_list, (k - 1) * per_day + 1, m))]

\* Clustered: consecutive chunks of ceil(m/d), one per day
Clustered(poi_list, day_count) ==
    LET m == Len(poi_list)
        chunk_size == (m + day_count - 1) \div day_count
    IN  [k \in 1..day_count |->
           DayPlan(k, Slice(poi_list, (k - 1) * chunk_size + 1, k * chunk_size))]

\* Priority-weighted: the first min(3, m) POIs one per day, each paired with
\* one secondary POI while the pool lasts; the days after the priority days
\* take the next secondary POIs in order, one per day
PriorityWeighted(poi_list, day_count) ==
    LET m == Len(poi_list)
        np == Min(3, m)
        priority == Slice(poi_list, 1, np)
        secondary == Slice(poi_list, np + 1, m)
    IN  [k \in 1..day_count |->
           DayPlan(k, (IF k <= np THEN <<priority[k]>> ELSE <<>>)
                      \o (IF k <= Len(secondary) THEN <<secondary[k]>> ELSE <<>>))]

\* the orders a shuffle can produce
Shuffles(poi_list) == Range(CityPermutations(poi_list))

\* all POIs of a DayPlanSet, day after day
RECURSIVE Flatten(_)
Flatten(plans) ==
    IF plans = <<>> THEN <<>> ELSE plans[1].pois \o Flatten(Tail(plans))

\* the multiset of a sequence's elements
Multiset(s) == [x \in Range(s) |-> Cardinality({k \in 1..Len(s) : s[k] = x})]

(* ------------------------- the agent's output -------------------------- *)
\* A text is a sequence of pieces; the pieces are cut so that each marker the
\* code searches for is a run of whole pieces and `in` is a search for a run.
Contains(text, marker) ==
    \E k \in 0..(Len(text) - Len(marker)) :
        SubSeq(text, k + 1, k + Len(marker)) = marker

\* agent_executor.py:213-218: the parsing_errors list
ParsingErrors ==
    {<<"Invalid Format", ": ", "Missing ", "'", "Action:", "'">>,
     <<"Missing ", "'", "Action:", "'", " after ", "'", "Thought:", "'">>,
     <<"Invalid Format", ": ", "Missing ", "'", "Action:", "'", " after ", "'", "Thought:", "'">>,
     <<"Expected ", "'", "Action:", "'", " after ", "'", "Thought:", "'">>}

\* the pieces of text an agent run is made of here: the outputs of
\* test_agent_parsing_fix.py:78-84, the parser's messages, the executor's
\* stop message, key words of a thought and a line break
Fragments ==
    {<<"Thought:", "cities">>,
     <<"Thought:", "hello">>,
     <<"Action:", "get_recommended_cities">>,
     <<"Final Answer:", "cities">>,
     <<"hello">>,
     <<"flight">>,
     <<"visit">>,
     <<"\n">>,
     <<"Invalid Format">>,
     <<"Invalid Format", ": ", "Missing ", "'", "Action Input:", "'", " after ", "'", "Action:", "'">>,
     <<"Agent stopped due to iteration limit">>}
    \cup ParsingErrors

RECURSIVE Concat(_)
Concat(frs) == IF frs = <<>> THEN <<>> ELSE frs[1] \o Concat(Tail(frs))

AgentOutputs == {Concat(frs) : frs \in SeqsUpTo(Fragments, MaxFragments)}

\* str.lower() on the pieces of an exception message
LowerPiece(p) ==
    CASE p = "Quota" -> "quota"
      [] p = "Rate limit" -> "rate limit"
      [] p = "Iteration limit" -> "iteration limit"
      [] OTHER -> p

Lower(text) == [k \in 1..Len(text) |-> LowerPiece(text[k])]

ExceptionMessages ==
    {<<"429", " Too Many Requests">>, <<"Quota", " exceeded">>, <<"quota">>,
     <<"Rate limit", " reached">>, <<"Iteration limit", " reached">>,
     <<"Agent stopped due to ", "iteration limit">>, <<"connection reset">>}

\* what agent_executor.invoke(input_data) can do: return a result dict or raise
AgentOutcomes ==
    {[raised |-> FALSE, output |-> o, intermediate_steps |-> st] :
        o \in AgentOutputs, st \in {<<>>, <<"get_recommended_cities">>}}
    \cup {[raised |-> TRUE, message |-> m] : m \in ExceptionMessages}

\* agent_executor.py:230-238: the text after the first "Thought:" up to the
\* end of its line
RECURSIVE UpToLineBreak(_)
UpToLineBreak(text) ==
    IF text = <<>> \/ text[1] = "\n" THEN <<>>
    ELSE <<text[1]>> \o UpToLineBreak(Tail(text))

RECURSIVE AfterFirst(_, _)
AfterFirst(text, piece) ==
    IF text = <<>> THEN <<>>
    ELSE IF text[1] = piece THEN Tail(text)
    ELSE AfterFirst(Tail(text), piece)

ThoughtContent(text) ==
    IF Contains(text, <<"Thought:">>) THEN UpToLineBreak(AfterFirst(text, "Thought:")) ELSE <<>>

\* agent_executor.py:240-248
FallbackResponse(thought) ==
    IF Contains(thought, <<"city">>) \/ Contains(thought, <<"cities">>)
    THEN <<"Great! Let me help you explore some amazing cities.">>
    ELSE IF Contains(thought, <<"flight">>) \/ Contains(thought, <<"fly">>)
    THEN <<"I'd be happy to help you find flight options!">>
    ELSE IF Contains(thought, <<"attraction">>) \/ Contains(thought, <<"visit">>)
    THEN <<"I'd love to help you find interesting attractions!">>
    ELSE <<"I'm here to help you plan your trip!">>

\* agent_executor.py:220-226: the incomplete-ReAct test
IsParsingError(output_text) ==
    LET has_thought == Contains(output_text, <<"Thought:">>)
        has_action == Contains(output_text, <<"Action:">>)
        has_final_answer == Contains(output_text, <<"Final Answer:">>)
    IN  \/ has_thought /\ ~has_action /\ ~has_final_answer
        \/ \E error \in ParsingErrors : Contains(output_text, error)

TechnicalDifficulties == <<"I apologize, but I encountered some technical difficulties.">>

\* agent_executor.py:192-289: the dict invoke_agent_with_history returns
InvokeResponseNoErrorFieldMut(outcome) ==
    IF outcome.raised
    THEN [output |-> TechnicalDifficulties,
          intermediate_steps |-> <<>>,
          success |-> FALSE]
    ELSE [output |-> outcome.output,
          intermediate_steps |-> outcome.intermediate_steps,
          success |-> TRUE]

InvokeResponse(outcome) ==
    IF outcome.raised
    THEN LET error_msg == outcome.message
         IN  IF \/ Contains(error_msg, <<"429">>)
                \/ Contains(Lower(error_msg), <<"quota">>)
                \/ Contains(Lower(error_msg), <<"rate limit">>)
             THEN [output |-> <<"I'm currently experiencing high demand.">>,
                   intermediate_steps |-> <<>>,
                   success |-> FALSE,
                   error |-> <<"Rate limit exceeded">>,
                   rate_limited |-> TRUE]
             ELSE IF Contains(Lower(error_msg), <<"iteration limit">>)
             THEN [output |-> TechnicalDifficulties,
                   intermediate_steps |-> <<>>,
                   success |-> FALSE,
                   error |-> <<"Agent iteration limit exceeded">>]
             ELSE [output |-> <<"I apologize, but I encountered an error: ">> \o error_msg,
                   intermediate_steps |-> <<>>,
                   success |-> FALSE,
                   error |-> error_msg]
    ELSE LET output_text == outcome.output
         IN  IF Contains(output_text, <<"Agent stopped due to iteration limit">>)
             THEN [output |-> TechnicalDifficulties,
                   intermediate_steps |-> <<>>,
                   success |-> FALSE,
                   error |-> <<"Agent iteration limit exceeded">>]
             ELSE IF IsParsingError(output_text)
             THEN [output |-> FallbackResponse(ThoughtContent(output_text)),
                   intermediate_steps |-> <<>>,
                   success |-> FALSE,
                   error |-> <<"ReAct parsing error - incomplete thought/action pattern">>]
             ELSE [output |-> output_text,
                   intermediate_steps |-> outcome.intermediate_steps,
                   success |-> TRUE]

(* --------------------------- the itinerary store ----------------------- *)
\* a Python str where a list was expected
PyStr(s) == [isList |-> FALSE, str |-> s]

\* JSON text as a sequence of tokens: brackets, commas and string literals
JsonToken(t, s) == [t |-> t, s |-> s]

RECURSIVE JsonItems(_)
JsonItems(list) ==
    IF list = <<>> THEN <<>>
    ELSE IF Len(list) = 1 THEN <<JsonToken("str", list[1])>>
    ELSE <<JsonToken("str", list[1]), JsonToken(",", "")>> \o JsonItems(Tail(list))

JsonDumpsMut(v) ==
    IF v.isList
    THEN <<JsonToken("[", "")>>
         \o JsonItems([k \in 1..Len(v.val) |-> v.val[Len(v.val) + 1 - k]])
         \o <<JsonToken("]", "")>>
    ELSE <<JsonToken("str", v.str)>>

\* json.dumps of a list of str, or of a str
JsonDumps(v) ==
    IF v.isList
    THEN <<JsonToken("[", "")>> \o JsonItems(v.val) \o <<JsonToken("]", "")>>
    ELSE <<JsonToken("str", v.str)>>

RECURSIVE JsonStrings(_)
JsonStrings(text) ==
    IF text = <<>> THEN <<>>
    ELSE (IF text[1].t = "str" THEN <<text[1].s>> ELSE <<>>) \o JsonStrings(Tail(text))

\* json.loads of such a text
JsonLoads(text) ==
    IF text[1].t = "[" THEN PyList(JsonStrings(text)) ELSE PyStr(text[1].s)

\* itinerary.py:66-90: to_dict (the fields the model keeps)
ToDict(row) ==
    [id |-> row.id,
     user_id |-> row.user_id,
     name |-> row.name,
     cities |-> IF row.cities # <<>> THEN JsonLoads(row.cities) ELSE PyList(<<>>),
     total_distance_km |-> row.total_distance_km,
     carbon_emissions_kg |-> row.carbon_emissions_kg]

\* itinerary.py:117-129: the row create_itinerary builds
NewItinerary(id, a) ==
    [id |-> id,
     user_id |-> a.user_id,
     name |-> a.name,
     cities |-> JsonDumps(a.cities),
     total_distance_km |-> a.total_distance_km,
     carbon_emissions_kg |-> a.carbon_emissions_kg]

\* the calls of test.py:42-73, 189-210: user ids, names with their distance
\* and carbon (hundredths), city lists and a str in place of the list
UnknownUserId == 99999
SaveUserIds == {1, UnknownUserId}
SaveCities == {PyList(c) : c \in CityLists} \cup {PyStr("not a list")}

\* a single city has no distance; the longer trips are test.py:53-59
SaveTrip(c) ==
    IF c.isList /\ Len(c.val) <= 1
    THEN [name |-> "London Weekend Trip", total_distance_km |-> 0, carbon_emissions_kg |-> 0]
    ELSE [name |-> "France Adventure", total_distance_km |-> 75050, carbon_emissions_kg |-> 9006]

SaveArgs ==
    {[user_id |-> u, name |-> SaveTrip(c).name, cities |-> c,
      total_distance_km |-> SaveTrip(c).total_distance_km,
      carbon_emissions_kg |-> SaveTrip(c).carbon_emissions_kg] :
        u \in SaveUserIds, c \in SaveCities}

\* user.py:72-109 inputs (test.py:33-37)
Auth0Sub == "test-user-123"
UserNames == {"", "Test User"}
UserEmails == {"", "test@example.com"}

(* ------------------------------ requests ------------------------------- *)
TravelDate == "2026-12-01"

FlightArgs ==
    [origin_city : {"", "New York", "Atlantis"},
     travel_date : {"", TravelDate},
     destination_country : {"", "France", "Atlantis"}]

NoFlightArgs == [origin_city |-> "", travel_date |-> "", destination_country |-> ""]
FullFlightArgs ==
    [origin_city |-> "New York", travel_date |-> TravelDate, destination_country |-> "France"]

ListArgs == {Arg("list", TRUE, PyList(c)) : c \in CityLists}

CoercedArgs ==
    {Arg("dict", TRUE, PyList(SubSeq(CityNames, 1, 2))),
     Arg("dict", TRUE, NotAList),
     Arg("dict", FALSE, NotAList),
     Arg("json_str", TRUE, PyList(SubSeq(CityNames, 1, 1))),
     Arg("json_str", FALSE, NotAList),
     Arg("pydict_str", TRUE, PyList(<<>>)),
     Arg("brace_str", FALSE, NotAList),
     Arg("literal_str", TRUE, PyList(SubSeq(CityNames, 1, 2))),
     Arg("literal_str", TRUE, NotAList),
     Arg("plain_str", TRUE, PyList(<<"">>)),
     Arg("plain_str", TRUE, PyList(SubSeq(CityNames, 1, 2))),
     Arg("other", TRUE, NotAList)}

\* food_budget: float = None (tools.py:259): absent, or an amount in cents
NoFoodBudget == None
FoodBudget == [none |-> FALSE, cents |-> 20000]

\* The requests explored: every flight context with the lists of up to two
\* cities, the longer lists without flight context, and the coerced argument
\* shapes without and with a full flight context, all without food budget;
\* the lists of one and two cities also with a food budget.
Requests ==
    {[cities |-> a, flight |-> f, food_budget |-> NoFoodBudget] :
        a \in {x \in ListArgs : Len(x.payload.val) <= 2}, f \in FlightArgs}
    \cup {[cities |-> a, flight |-> NoFlightArgs, food_budget |-> NoFoodBudget] : a \in ListArgs}
    \cup {[cities |-> a, flight |-> f, food_budget |-> NoFoodBudget] :
        a \in CoercedArgs, f \in {NoFlightArgs, FullFlightArgs}}
    \cup {[cities |-> a, flight |-> f, food_budget |-> FoodBudget] :
        a \in {x \in ListArgs : Len(x.payload.val) \in {1, 2}}, f \in {NoFlightArgs, FullFlightArgs}}

(* ------------------------------- state --------------------------------- *)
VARIABLES
    pc,                     \* "call", "flights", "permute", "loop", "done"
    request,                \* the arguments of the call
    cities,                 \* the coerced city list
    called,                 \* the providers called so far
    flights,                \* the flight provider's response
    flight_costs,           \* the prices extracted from it
    selected_permutations,
    i,                      \* loop index over selected_permutations (from 0)
    fetched,                \* per evaluated route: what the distance lookup returned
    lookups,                \* per evaluated route: the requests the lookup issued
    itinerary_options,
    result,                 \* the returned list
    spc,                    \* scheduler: "idle", "ready", "scheduled"
    poi_list,               \* scheduler input
    day_count,              \* scheduler input
    strategy,               \* the strategy that ran
    day_plans,              \* the DayPlanSet it returned
    call_no,                \* 1 in the first call of the tool, 2 in a repeated call
    first,                  \* what the first call saw and returned, None during it
    apc,                    \* agent wrapper: "idle", "ready", "returned"
    agent_outcome,          \* what agent_executor.invoke did
    agent_response,         \* the dict invoke_agent_with_history returned
    users,                  \* rows of the users table
    itineraries,            \* rows of the itineraries table
    saved_args,             \* per itinerary row: the arguments it was saved with
    last_save,              \* the last save_itinerary call and how it ended
    fk_enforced,            \* whether the database engine enforces foreign keys
    callers,                \* the concurrent create_or_get_user calls, each at its step
    fpc,                    \* find_flight_options: "idle", "ready", "returned"
    fargs,                  \* its arguments
    offers,                 \* what search_flights returned to it
    flight_options          \* the list it returned

scheduler == <<spc, poi_list, day_count, strategy, day_plans>>

vars == <<pc, request, cities, called, flights, flight_costs,
          selected_permutations, i, fetched, lookups, itinerary_options, result,
          spc, poi_list, day_count, strategy, day_plans, call_no, first,
          apc, agent_outcome, agent_response,
          users, itineraries, saved_args, last_save, fk_enforced, callers,
          fpc, fargs, offers, flight_options>>

search == <<fpc, fargs, offers, flight_options>>

store == <<users, itineraries, saved_args, last_save, fk_enforced, callers>>

StoreIdle ==
    /\ users = <<>>
    /\ itineraries = <<>>
    /\ saved_args = <<>>
    /\ last_save = None
    /\ fk_enforced = FALSE
    /\ callers = <<>>

SearchIdle ==
    /\ fpc = "idle"
    /\ fargs = [origin_city |-> "", travel_date |-> "", destination_country |-> ""]
    /\ offers = <<>>
    /\ flight_options = <<>>

agent == <<apc, agent_outcome, agent_response>>

AgentIdle ==
    /\ apc = "idle"
    /\ agent_outcome = None
    /\ agent_response = None

\* a first call: nothing recorded of an earlier one
FirstCall ==
    /\ call_no = 1
    /\ first = None

\* what the pipeline's own steps leave alone
outside == <<scheduler, call_no, first, agent, store, search>>

SchedulerIdle ==
    /\ spc = "idle"
    /\ poi_list = <<>>
    /\ day_count = 1
    /\ strategy = ""
    /\ day_plans = <<>>

Init ==
    /\ pc = "call"
    /\ request \in Requests
    /\ cities = <<>>
    /\ called = {}
    /\ flights = <<>>
    /\ flight_costs = <<>>
    /\ selected_permutations = <<>>
    /\ i = 0
    /\ fetched = <<>>
    /\ lookups = <<>>
    /\ itinerary_options = <<>>
    /\ result = <<>>
    /\ SchedulerIdle
    /\ FirstCall
    /\ AgentIdle
    /\ StoreIdle
    /\ SearchIdle

\* tools.py:274-310: coerce the argument, reject an empty list
Validate ==
    /\ pc = "call"
    /\ LET c == CoerceCities(request.cities)
       IN  /\ cities' = c
           /\ IF TooFewCities(c)
              THEN /\ result' = <<ErrorRecord>>
                   /\ pc' = "done"
              ELSE /\ result' = result
                   /\ pc' = "flights"
    /\ UNCHANGED <<request, called, flights, flight_costs, selected_permutations,
                   i, fetched, lookups, itinerary_options, outside>>

\* In a repeated call the providers answer as they did in the first call:
\* the flight search is reached again exactly if it was reached then, and
\* returns the same offers.
SameFlightLookup(searched, response) ==
    call_no = 2 =>
        /\ searched = ("flights" \in first.called)
        /\ searched => response = first.flights

\* ... and the distance lookup for the idx-th candidate (from 0) returns again
\* what it returned then.
SameDistanceLookup(idx, res) ==
    call_no = 2 => res = first.fetched[idx + 1]

HasFlightContext(f) ==
    f.origin_city # "" /\ f.travel_date # "" /\ f.destination_country # ""

\* tools.py:312-355, no flight context: flight_costs stays []
SkipFlights ==
    /\ pc = "flights"
    /\ ~HasFlightContext(request.flight)
    /\ flight_costs' = <<>>
    /\ pc' = "permute"
    /\ UNCHANGED <<request, cities, called, flights,
                   selected_permutations, i, fetched, lookups, itinerary_options, result, outside>>

\* tools.py:312-355 with a flight context
GetFlightCosts ==
    /\ pc = "flights"
    /\ HasFlightContext(request.flight)
    /\ \E origin_iata \in IataCodes(request.flight.origin_city) :
         LET dest_iata == DestinationAirport(request.flight.destination_country)
         IN  IF origin_iata # "" /\ dest_iata # ""
             THEN \E response \in FlightResponses :
                    /\ SameFlightLookup(TRUE, response)
                    /\ flights' = response
                    /\ flight_costs' = ExtractPrices(response)
                    /\ called' = called \cup {"iata", "flights"}
             ELSE /\ SameFlightLookup(FALSE, flights)
                  /\ flights' = flights
                  /\ flight_costs' = <<>>
                  /\ called' = called \cup {"iata"}
    /\ pc' = "permute"
    /\ UNCHANGED <<request, cities, selected_permutations, i, fetched, lookups,
                   itinerary_options, result, outside>>

StaleOptionsMut == itinerary_options

\* tools.py:372: itinerary_options = []
EmptyOptions == <<>>

\* tools.py:356-372
Permute ==
    /\ pc = "permute"
    /\ selected_permutations' = SelectPermutations(cities)
    /\ i' = 0
    /\ itinerary_options' = EmptyOptions
    /\ pc' = "loop"
    /\ UNCHANGED <<request, cities, called, flights, flight_costs, fetched, lookups, result, outside>>

ItineraryOptionMut(idx, route_list, travel_details, drive, costs) ==
    [id |-> idx,
     cities |-> route_list,
     total_distance_km |-> travel_details.total_distance_km,
     carbon_emissions_kg |-> travel_details.carbon_emissions_kg,
     estimated_drive_time_hours |-> drive,
     costs |-> [flight_cost |-> FlightCostFor(idx, costs)]]

\* tools.py:391-406
ItineraryOption(idx, route_list, travel_details, drive, costs) ==
    LET flight_cost == FlightCostFor(idx, costs)
    IN  [id |-> idx + 1,
         cities |-> route_list,
         total_distance_km |-> travel_details.total_distance_km,
         carbon_emissions_kg |-> travel_details.carbon_emissions_kg,
         estimated_drive_time_hours |-> drive,
         costs |-> [flight_cost |-> flight_cost]]

SingleCityTravelDetailsMut ==
    [error |-> FALSE, total_distance_km |-> 0, carbon_emissions_kg |-> 1]

\* tools.py:378-383: a single city has no travel distance to calculate
SingleCityTravelDetails ==
    [error |-> FALSE, total_distance_km |-> 0, carbon_emissions_kg |-> 0]

\* tools.py:374-383, 391-408: one iteration for a single-city route
EvaluateSingleCity ==
    /\ pc = "loop"
    /\ i < Len(selected_permutations)
    /\ Len(selected_permutations[i + 1]) = 1
    /\ LET route_list == selected_permutations[i + 1]
           travel_details == SingleCityTravelDetails
       IN  itinerary_options' =
             Append(itinerary_options, ItineraryOption(i, route_list, travel_details, 0, flight_costs))
    /\ fetched' = Append(fetched, None)
    /\ lookups' = Append(lookups, NoLookup)
    /\ i' = i + 1
    /\ UNCHANGED <<pc, request, cities, called, flights, flight_costs,
                   selected_permutations, result, outside>>

AppendUnlessErrorMut(options, travel_details, option) ==
    IF travel_details.error THEN <<>> ELSE Append(options, option)

\* tools.py:388-389, 408: `continue` on an error, else append the option
AppendUnlessError(options, travel_details, option) ==
    IF travel_details.error THEN options ELSE Append(options, option)

\* tools.py:374-408: one iteration for a multi-city route, through
\* calculate_travel_details (111-189) and fetch_distance_between_cities (429-549)
EvaluateRoute ==
    /\ pc = "loop"
    /\ i < Len(selected_permutations)
    /\ Len(selected_permutations[i + 1]) # 1
    /\ LET route_list == selected_permutations[i + 1]
       IN  \E fetch \in DistanceLookups(route_list) :
             LET res == fetch.result
             IN  /\ SameDistanceLookup(i, res)
                 /\ fetched' = Append(fetched, res)
                 /\ lookups' = Append(lookups, fetch.lookup)
                 /\ called' = called
                      \cup (IF Len(route_list) >= 2 THEN {"coordinates"} ELSE {})
                      \cup (IF fetch.lookup.distance_requests > 0 THEN {"distance"} ELSE {})
                 /\ \E travel_details \in CalculateTravelDetails(route_list, res) :
                     \E drive \in RoundNearest(travel_details.total_distance_km, 600) :
                       itinerary_options' =
                         AppendUnlessError(itinerary_options, travel_details,
                                           ItineraryOption(i, route_list, travel_details, drive, flight_costs))
    /\ i' = i + 1
    /\ UNCHANGED <<pc, request, cities, flights, flight_costs, selected_permutations, result, outside>>

\* tools.py:410-413
Rank ==
    /\ pc = "loop"
    /\ i = Len(selected_permutations)
    /\ result' = SortOptions(itinerary_options)
    /\ pc' = "done"
    /\ UNCHANGED <<request, cities, called, flights, flight_costs,
                   selected_permutations, i, fetched, lookups, itinerary_options, outside>>

Next ==
    \/ Validate
    \/ SkipFlights
    \/ GetFlightCosts
    \/ Permute
    \/ EvaluateSingleCity
    \/ EvaluateRoute
    \/ Rank

Spec == Init /\ [][Next]_vars

(* --------------------------- a repeated call --------------------------- *)
\* The tool has returned and is called once more with the same arguments.
\* The locals of the first call are dead; the model leaves their last values
\* in place, and the second call assigns each before reading it (tools.py:276-
\* 304 cities, 313 flight_costs, 361-372 selected_permutations and
\* itinerary_options, 374 i).  The module has no state of its own beside the
\* logger (tools.py:17).  The record of the providers' answers starts afresh.
CallAgain ==
    /\ pc = "done"
    /\ call_no = 1
    /\ first' = [none |-> FALSE, result |-> result, flights |-> flights,
                 fetched |-> fetched, called |-> called]
    /\ call_no' = 2
    /\ pc' = "call"
    /\ called' = {}
    /\ fetched' = <<>>
    /\ lookups' = <<>>
    /\ result' = <<>>
    /\ UNCHANGED <<request, cities, flights, flight_costs, selected_permutations,
                   i, itinerary_options, scheduler, agent, store, search>>

NextTwice ==
    \/ Next
    \/ CallAgain

\* a repeated call is explored for the requests of up to three cities
InitTwice ==
    /\ Init
    /\ Len(CoerceCities(request.cities)) <= 3

SpecTwice == InitTwice /\ [][NextTwice]_vars

(* ------------------- the scheduler as a state machine ------------------ *)
itineraryTool == <<pc, request, cities, called, flights, flight_costs,
                   selected_permutations, i, fetched, lookups, itinerary_options, result,
                   call_no, first>>

tool == <<itineraryTool, search>>

ToolIdle ==
    /\ pc = "idle"
    /\ request = [cities |-> Arg("list", TRUE, PyList(<<>>)), flight |-> NoFlightArgs,
                  food_budget |-> NoFoodBudget]
    /\ cities = <<>>
    /\ called = {}
    /\ flights = <<>>
    /\ flight_costs = <<>>
    /\ selected_permutations = <<>>
    /\ i = 0
    /\ fetched = <<>>
    /\ lookups = <<>>
    /\ itinerary_options = <<>>
    /\ result = <<>>
    /\ FirstCall

pipeline == <<pc, request, cities, called, flights, flight_costs,
              selected_permutations, i, fetched, lookups, itinerary_options, result,
              call_no, first, agent, store, search>>

InitSchedule ==
    /\ ToolIdle
    /\ SearchIdle
    /\ spc = "ready"
    /\ poi_list \in SeqsUpTo(PoiNames, MaxPois)
    /\ day_count \in 1..MaxDays
    /\ strategy = ""
    /\ day_plans = <<>>
    /\ AgentIdle
    /\ StoreIdle

ScheduleBalanced ==
    /\ spc = "ready"
    /\ spc' = "scheduled"
    /\ strategy' = "balanced"
    /\ day_plans' = Balanced(poi_list, day_count)
    /\ UNCHANGED <<poi_list, day_count, pipeline>>

ScheduleClustered ==
    /\ spc = "ready"
    /\ spc' = "scheduled"
    /\ strategy' = "clustered"
    /\ day_plans' = Clustered(poi_list, day_count)
    /\ UNCHANGED <<poi_list, day_count, pipeline>>

SchedulePriorityWeighted ==
    /\ spc = "ready"
    /\ spc' = "scheduled"
    /\ strategy' = "priority_weighted"
    /\ day_plans' = PriorityWeighted(poi_list, day_count)
    /\ UNCHANGED <<poi_list, day_count, pipeline>>

\* Randomized: Balanced applied to a shuffled copy
ScheduleRandomized ==
    /\ spc = "ready"
    /\ \E shuffled \in Shuffles(poi_list) :
         day_plans' = Balanced(shuffled, day_count)
    /\ spc' = "scheduled"
    /\ strategy' = "randomized"
    /\ UNCHANGED <<poi_list, day_count, pipeline>>

NextSchedule ==
    \/ ScheduleBalanced
    \/ ScheduleClustered
    \/ SchedulePriorityWeighted
    \/ ScheduleRandomized

SpecSchedule == InitSchedule /\ [][NextSchedule]_vars

(* ----------------- invoke_agent_with_history as a step ----------------- *)
InitAgent ==
    /\ ToolIdle
    /\ SearchIdle
    /\ SchedulerIdle
    /\ apc = "ready"
    /\ agent_outcome = None
    /\ agent_response = None
    /\ StoreIdle

\* agent_executor.py:176-289: one call, whatever the executor does
InvokeAgentWithHistory ==
    /\ apc = "ready"
    /\ \E outcome \in AgentOutcomes :
         /\ agent_outcome' = outcome
         /\ agent_response' = InvokeResponse(outcome)
    /\ apc' = "returned"
    /\ UNCHANGED <<tool, scheduler, store>>

NextAgent == InvokeAgentWithHistory

SpecAgent == InitAgent /\ [][NextAgent]_vars

(* ------------------- users and itineraries as a store ------------------ *)
\* config.py:20: SQLite (the default) does not enforce the foreign key of
\* itinerary.py:38, a server named by DATABASE_URL does
InitStore ==
    /\ ToolIdle
    /\ SearchIdle
    /\ SchedulerIdle
    /\ AgentIdle
    /\ users = <<>>
    /\ itineraries = <<>>
    /\ saved_args = <<>>
    /\ last_save = None
    /\ fk_enforced \in BOOLEAN
    /\ callers = <<>>

UserIds == {users[k].id : k \in 1..Len(users)}

\* user.py:72-109
CreateOrGetUser ==
    /\ \E name \in UserNames, email \in UserEmails :
         IF \E k \in 1..Len(users) : users[k].auth0_sub = Auth0Sub
         THEN LET k == CHOOSE j \in 1..Len(users) : users[j].auth0_sub = Auth0Sub
                  user == users[k]
              IN  users' = [users EXCEPT ![k] =
                              [user EXCEPT !.name = IF name # "" /\ user.name # name
                                                    THEN name ELSE user.name,
                                           !.email = IF email # "" /\ user.email # email
                                                     THEN email ELSE user.email]]
         ELSE users' = Append(users, [id |-> Len(users) + 1, auth0_sub |-> Auth0Sub,
                                      name |-> name, email |-> email])
    /\ UNCHANGED <<itineraries, saved_args, last_save, fk_enforced, callers, tool, scheduler, agent>>

\* tools.py:193-224 through Itinerary.create_itinerary (itinerary.py:92-133).
\* The tool's input is checked against its signature (cities: List[str])
\* before the body runs; the commit fails on an unknown user only where the
\* foreign key is enforced.
SaveItinerary ==
    /\ Len(itineraries) < MaxSaves
    /\ \E a \in SaveArgs :
         IF ~a.cities.isList
         THEN /\ last_save' = [none |-> FALSE, args |-> a, outcome |-> "validation error", id |-> 0]
              /\ UNCHANGED <<itineraries, saved_args>>
         ELSE IF fk_enforced /\ a.user_id \notin UserIds
         THEN /\ last_save' = [none |-> FALSE, args |-> a, outcome |-> "Error saving itinerary", id |-> 0]
              /\ UNCHANGED <<itineraries, saved_args>>
         ELSE LET id == Len(itineraries) + 1
              IN  /\ itineraries' = Append(itineraries, NewItinerary(id, a))
                  /\ saved_args' = Append(saved_args, a)
                  /\ last_save' = [none |-> FALSE, args |-> a, outcome |-> "Successfully saved", id |-> id]
    /\ UNCHANGED <<users, fk_enforced, callers, tool, scheduler, agent>>

NextStore ==
    \/ CreateOrGetUser
    \/ SaveItinerary

SpecStore == InitStore /\ [][NextStore]_vars

(* -------------------------- find_flight_options ------------------------ *)
InitFlights ==
    /\ ToolIdle
    /\ SchedulerIdle
    /\ AgentIdle
    /\ StoreIdle
    /\ fpc = "ready"
    /\ fargs \in FlightArgs
    /\ offers = <<>>
    /\ flight_options = <<>>

\* tools.py:424-599 called with the three parameters as separate arguments
FindFlightOptions ==
    /\ fpc = "ready"
    /\ IF ~HasFlightContext(fargs)
       THEN /\ flight_options' = <<[error |-> "Missing required parameters"]>>
            /\ offers' = offers
       ELSE \E origin_iata \in IataCodes(fargs.origin_city) :
              LET destination_iata == DestinationAirport(fargs.destination_country)
              IN  IF origin_iata = "" \/ destination_iata = ""
                  THEN /\ flight_options' = <<[error |-> "Could not find airport code"]>>
                       /\ offers' = offers
                  ELSE \E response \in SearchResponses :
                         /\ offers' = response
                         /\ flight_options' =
                              IF response = <<>>
                              THEN <<[message |-> "No flights found"]>>
                              ELSE FlightOptions(response)
    /\ fpc' = "returned"
    /\ UNCHANGED <<fargs, itineraryTool, scheduler, agent, store>>

NextFlights == FindFlightOptions

SpecFlights == InitFlights /\ [][NextFlights]_vars

(* ---------------- concurrent create_or_get_user calls ------------------ *)
\* Requests are served concurrently, each with its own database session
\* (routes.py:452-454 calls User.create_or_get_user per request).  A call is
\* a lookup, then either an insert and commit, or an update and commit; the
\* steps of different calls interleave.  A session sees committed rows only,
\* and the unique index on users.auth0_sub (user.py:28) rejects the commit of
\* a second row for the same subject with an IntegrityError, which
\* create_or_get_user does not catch.
Callers == 1..MaxCallers

\* cls.query.filter_by(auth0_sub=auth0_sub).first(): the row, or nothing
FindByAuth0Sub(rows, sub) ==
    LET hits == {k \in 1..Len(rows) : rows[k].auth0_sub = sub}
    IN  IF hits = {} THEN <<>> ELSE <<rows[CHOOSE k \in hits : \A j \in hits : k <= j]>>

InitUsers ==
    /\ ToolIdle
    /\ SearchIdle
    /\ SchedulerIdle
    /\ AgentIdle
    /\ users = <<>>
    /\ itineraries = <<>>
    /\ saved_args = <<>>
    /\ last_save = None
    /\ fk_enforced = FALSE
    /\ callers \in [Callers -> {[at |-> "find", name |-> n, email |-> e, user |-> <<>>] :
                                  n \in UserNames, e \in UserEmails}]

\* user.py:86: user = cls.find_by_auth0_sub(auth0_sub)
FindUser ==
    \E c \in Callers :
        /\ callers[c].at = "find"
        /\ LET user == FindByAuth0Sub(users, Auth0Sub)
           IN  callers' = [callers EXCEPT ![c].user = user,
                                          ![c].at = IF user = <<>> THEN "insert" ELSE "update"]
        /\ UNCHANGED <<users, itineraries, saved_args, last_save, fk_enforced, tool, scheduler, agent>>

\* user.py:87-92: cls(...), db.session.add(user), db.session.commit()
InsertUser ==
    \E c \in Callers :
        /\ callers[c].at = "insert"
        /\ IF FindByAuth0Sub(users, Auth0Sub) # <<>>
           THEN /\ callers' = [callers EXCEPT ![c].at = "IntegrityError"]
                /\ users' = users
           ELSE LET user == [id |-> Len(users) + 1, auth0_sub |-> Auth0Sub,
                             name |-> callers[c].name, email |-> callers[c].email]
                IN  /\ users' = Append(users, user)
                    /\ callers' = [callers EXCEPT ![c].user = <<user>>, ![c].at = "returned"]
        /\ UNCHANGED <<itineraries, saved_args, last_save, fk_enforced, tool, scheduler, agent>>

\* user.py:93-109: set the attributes that were provided and differ from the
\* loaded ones, commit if any was set; only the attributes set are written
UpdateUser ==
    \E c \in Callers :
        /\ callers[c].at = "update"
        /\ LET user == callers[c].user[1]
               name == callers[c].name
               email == callers[c].email
               setName == name # "" /\ user.name # name
               setEmail == email # "" /\ user.email # email
               k == user.id
               row == [users[k] EXCEPT !.name = IF setName THEN name ELSE @,
                                       !.email = IF setEmail THEN email ELSE @]
           IN  /\ users' = [users EXCEPT ![k] = row]
               /\ callers' = [callers EXCEPT ![c].user = <<row>>, ![c].at = "returned"]
        /\ UNCHANGED <<itineraries, saved_args, last_save, fk_enforced, tool, scheduler, agent>>

NextUsers ==
    \/ FindUser
    \/ InsertUser
    \/ UpdateUser

SpecUsers == InitUsers /\ [][NextUsers]_vars

(* ============================== properties ============================= *)
IsError(r) == "error" \in DOMAIN r

Done == pc = "done"

\* positions of the route options in the returned list
RouteOptions == {k \in 1..Len(result) : ~IsError(result[k])}

Returned == {result[k] : k \in RouteOptions}

\* what the distance lookup returned for the route behind option o
FetchedFor(o) == fetched[o.id]

Distinct(s) == \A a, b \in 1..Len(s) : a # b => s[a] # s[b]

RECURSIVE Factorial(_)
Factorial(n) == IF n <= 1 THEN 1 ELSE n * Factorial(n - 1)

IsPermutationOf(p, c) == Len(p) = Len(c) /\ Multiset(p) = Multiset(c)

RECURSIVE MinOf(_)
MinOf(s) == IF Len(s) = 1 THEN s[1] ELSE Min(s[1], MinOf(Tail(s)))

\* C1: a route of n >= 2 cities with a leg the distance provider did not
\* resolve (HTTP error, empty response, timeout) is not in the returned list:
\* every returned multi-city option rests on a lookup in which every leg was
\* resolved.
C1_UnresolvedLegDropsRoute ==
    Done => \A o \in Returned :
              Len(o.cities) >= 2 =>
                /\ ~FetchedFor(o).none
                /\ FetchedFor(o).unresolved_legs = 0

\* C2: the returned list is non-decreasing in carbon_emissions_kg.
C2_NonDecreasingCarbon ==
    Done => \A a, b \in RouteOptions :
              a < b => result[a].carbon_emissions_kg <= result[b].carbon_emissions_kg

\* C2 witness: a returned list that the sort had to reorder.
C2_Witness ==
    /\ Done
    /\ \E a, b \in RouteOptions :
         /\ a < b
         /\ result[a].id > result[b].id
         /\ result[a].carbon_emissions_kg < result[b].carbon_emissions_kg

\* C3 as claimed: carbon_emissions_kg = round(D * 0.12, 2) with D the reported,
\* already rounded total_distance_km.
C3_CarbonFromReportedDistance ==
    Done => \A o \in Returned :
              o.carbon_emissions_kg \in RoundNearest(12 * o.total_distance_km, 100)

\* C3 amended: carbon_emissions_kg = round(T * 0.12, 2) where T is the
\* unrounded total (provider metres / 1000); total_distance_km = round(T, 2) is
\* rounded separately.
C3_CarbonFromUnroundedDistance ==
    Done => \A o \in Returned :
              Len(o.cities) >= 2 =>
                /\ ~FetchedFor(o).none
                /\ o.carbon_emissions_kg
                     \in RoundNearest(12 * FetchedFor(o).total_distance_meters, 1000)
                /\ o.total_distance_km
                     \in RoundNearest(FetchedFor(o).total_distance_meters, 10)

\* C3 witness: a returned option whose carbon value differs from the one
\* computed from its reported distance.
C3_Witness ==
    /\ Done
    /\ \E o \in Returned :
         /\ Len(o.cities) >= 2
         /\ o.carbon_emissions_kg \notin RoundNearest(12 * o.total_distance_km, 100)

\* C4: for n >= 2 distinct cities the generator selects exactly min(n!, 5)
\* orderings, each a permutation of the input, none twice when n! <= 5.
C4_SelectedPermutations ==
    (pc \in {"loop", "done"} /\ Len(cities) >= 2 /\ Distinct(cities)) =>
        /\ Len(selected_permutations) = Min(Factorial(Len(cities)), 5)
        /\ Len(selected_permutations) >= 1
        /\ \A k \in 1..Len(selected_permutations) :
             IsPermutationOf(selected_permutations[k], cities)
        /\ Factorial(Len(cities)) <= 5 => Distinct(selected_permutations)

\* C4 witness: more than five permutations exist and five were selected.
C4_Witness ==
    /\ pc = "loop"
    /\ Factorial(Len(cities)) > 5
    /\ Len(selected_permutations) = 5

\* C5 as claimed: for a non-empty city list the returned list holds between 1
\* and 5 route options, whatever the providers do.
C5_OneToFiveOptions ==
    (Done /\ Len(cities) >= 1) =>
        /\ Len(result) >= 1
        /\ Len(result) <= 5
        /\ RouteOptions = 1..Len(result)

\* C5 amended: the returned list holds at most 5 route options, one for each
\* candidate whose metric lookup did not fail: at least 1 when some candidate
\* resolves (always for a single city), none when every candidate fails.
C5_AtMostFiveOptions ==
    (Done /\ Len(cities) >= 1) =>
        /\ Len(result) <= 5
        /\ RouteOptions = 1..Len(result)
        /\ {o.id : o \in Returned} =
             {k \in 1..Len(fetched) : Len(cities) = 1 \/ ~fetched[k].none}
        /\ Len(result) = Cardinality({o.id : o \in Returned})

\* C5 witness: a multi-city request all of whose candidates failed.
C5_Witness ==
    /\ Done
    /\ Len(cities) >= 2
    /\ Len(fetched) >= 2
    /\ \A k \in 1..Len(fetched) : fetched[k].none
    /\ result = <<>>

\* C6: whatever the strategy, the POIs of the day plans are, as a multiset,
\* exactly the input POIs.
C6_PlansCoverInput ==
    spc = "scheduled" => Multiset(Flatten(day_plans)) = Multiset(poi_list)

\* C7: every returned option has fuel_cost, accommodation_cost, food_cost and
\* flight_cost, all non-negative, and total_cost equal to their sum.
C7_CostBreakdown ==
    Done => \A o \in Returned :
              /\ {"fuel_cost", "accommodation_cost", "food_cost", "flight_cost", "total_cost"}
                   \subseteq DOMAIN o.costs
              /\ o.costs.fuel_cost >= 0
              /\ o.costs.accommodation_cost >= 0
              /\ o.costs.food_cost >= 0
              /\ o.costs.flight_cost >= 0
              /\ o.costs.total_cost = o.costs.fuel_cost + o.costs.accommodation_cost
                                      + o.costs.food_cost + o.costs.flight_cost

\* C8: with a flight context and resolved offers every option's flight_cost is
\* the cheapest resolved price; without a flight context it is 0.
C8_CheapestFlight ==
    Done => \A o \in Returned :
              /\ (HasFlightContext(request.flight) /\ flight_costs # <<>>)
                   => o.costs.flight_cost = MinOf(flight_costs)
              /\ ~HasFlightContext(request.flight) => o.costs.flight_cost = 0

\* C9 as claimed: options with equal carbon_emissions_kg are ordered by
\* total_distance_km ascending.
C9_TiesByDistance ==
    Done => \A a, b \in RouteOptions :
              (a < b /\ result[a].carbon_emissions_kg = result[b].carbon_emissions_kg)
                => result[a].total_distance_km <= result[b].total_distance_km

\* C9 amended: options with equal carbon_emissions_kg keep the order in which
\* they were generated (ascending id); their distances may be in either order.
C9_TiesKeepGenerationOrder ==
    Done => \A a, b \in RouteOptions :
              (a < b /\ result[a].carbon_emissions_kg = result[b].carbon_emissions_kg)
                => result[a].id < result[b].id

\* C9 witness: two options with equal carbon, the one with the longer
\* distance first.
C9_Witness ==
    /\ Done
    /\ \E a, b \in RouteOptions :
         /\ a < b
         /\ result[a].carbon_emissions_kg = result[b].carbon_emissions_kg
         /\ result[a].total_distance_km > result[b].total_distance_km

\* C10: a request whose city list is, or coerces to, the empty list is
\* rejected with the input error: no route option is produced and no provider
\* (coordinates, distance, airport code, flights) has been called.
C10_EmptyListRejected ==
    (pc # "call" /\ CoerceCities(request.cities) = <<>>) =>
        /\ Done
        /\ result = <<ErrorRecord>>
        /\ itinerary_options = <<>>
        /\ called = {}

\* C10 witness: an argument that is not a list coerces to the empty list and
\* is rejected although a full flight context was supplied.
C10_Witness ==
    /\ Done
    /\ request.cities.kind # "list"
    /\ HasFlightContext(request.flight)
    /\ cities = <<>>
    /\ result = <<ErrorRecord>>

\* C11: a request of exactly one city returns exactly one option, whose city
\* list is that city, with total_distance_km 0 and carbon_emissions_kg 0, and
\* neither the coordinates nor the distance provider has been called.
C11_SingleCityTrivialRoute ==
    (Done /\ Len(cities) = 1) =>
        /\ Len(result) = 1
        /\ ~IsError(result[1])
        /\ result[1].cities = cities
        /\ result[1].total_distance_km = 0
        /\ result[1].carbon_emissions_kg = 0
        /\ "distance" \notin called
        /\ "coordinates" \notin called

\* C11 witness: a one-city request, with a flight lookup made on the way, has
\* returned its single option.
C11_Witness ==
    /\ Done
    /\ Len(cities) = 1
    /\ "flights" \in called
    /\ Len(result) = 1
    /\ result[1].cities = cities

\* the fields of a route option
OptionFields ==
    {"id", "cities", "total_distance_km", "carbon_emissions_kg",
     "estimated_drive_time_hours", "costs"}

\* the candidates the loop skipped: their travel-details lookup gave an error
DroppedCandidates ==
    {k \in 1..Len(fetched) : Len(cities) >= 2 /\ fetched[k].none}

\* C12 as claimed: when candidates were dropped the returned value carries,
\* beside the surviving options, the number of dropped candidates.
C12_DroppedCountReturned ==
    (Done /\ Len(result) < Len(selected_permutations)) =>
        \E k \in 1..Len(result) :
          \E f \in (DOMAIN result[k]) \ OptionFields :
            result[k][f] = Len(selected_permutations) - Cardinality(RouteOptions)

\* C12 amended: the returned list holds the surviving options and nothing
\* else, no count of dropped candidates; each survivor keeps the 1-based
\* position of its candidate as id, and survivors plus candidates whose lookup
\* failed make up the candidates selected.
C12_SurvivorsOnly ==
    (Done /\ Len(cities) >= 1) =>
        /\ \A k \in 1..Len(result) : DOMAIN result[k] = OptionFields
        /\ {result[k].id : k \in 1..Len(result)}
             = (1..Len(selected_permutations)) \ DroppedCandidates
        /\ Len(result) + Cardinality(DroppedCandidates) = Len(selected_permutations)

\* C12 witness: some candidates were dropped and some survived.
C12_Witness ==
    /\ Done
    /\ Len(result) >= 1
    /\ DroppedCandidates # {}
    /\ Len(result) < Len(selected_permutations)

\* C13: a failed lookup degrades only its own item.  Every candidate whose
\* distance lookup resolved all its legs is in the returned list, whatever
\* happened to the other candidates and to the flight lookup, with its own
\* city order and the distance and carbon of its own lookup; a flight lookup
\* that gave no price only leaves flight_cost at 0.
C13_FailureDegradesOnlyItsItem ==
    (Done /\ Len(cities) >= 2) =>
        /\ \A k \in 1..Len(fetched) :
             (~fetched[k].none /\ fetched[k].unresolved_legs = 0) =>
               \E p \in RouteOptions :
                 /\ result[p].id = k
                 /\ result[p].cities = selected_permutations[k]
                 /\ result[p].total_distance_km
                      \in RoundNearest(fetched[k].total_distance_meters, 10)
                 /\ result[p].carbon_emissions_kg
                      \in RoundNearest(12 * fetched[k].total_distance_meters, 1000)
        /\ flight_costs = <<>> => \A o \in Returned : o.costs.flight_cost = 0

\* C13 witness: the flight lookup gave no price, an earlier candidate's
\* distance lookup failed, and a later candidate is returned.
C13_Witness ==
    /\ Done
    /\ "flights" \in called
    /\ flight_costs = <<>>
    /\ \E j, k \in 1..Len(fetched) :
         /\ j < k
         /\ fetched[j].none
         /\ ~fetched[k].none
         /\ fetched[k].unresolved_legs = 0
         /\ \E o \in Returned : o.id = k

\* C14: every returned option has a food_cost, equal to the caller's
\* food_budget when one was supplied and to 40 per city otherwise, and its
\* breakdown carries a record of which of the two was used.
C14_FoodCost ==
    Done => \A o \in Returned :
              /\ "food_cost" \in DOMAIN o.costs
              /\ o.costs.food_cost = (IF request.food_budget.none
                                        THEN 4000 * Len(o.cities)
                                        ELSE request.food_budget.cents)
              /\ (DOMAIN o.costs) \ {"fuel_cost", "accommodation_cost", "food_cost",
                                       "flight_cost", "total_cost"} # {}

\* C15: in the course of one request the route metric evaluations are counted
\* one at a time and their number never exceeds the permutation cap of 5,
\* however many orderings the city list has.
C15_AtMostFiveEvaluations ==
    [][fetched' # fetched =>
         /\ Len(fetched') = Len(fetched) + 1
         /\ Len(fetched') <= 5
         /\ Len(fetched') <= Len(selected_permutations)]_vars

\* C15 witness: a list with more than five orderings has had its fifth and
\* last evaluation and the result was returned.
C15_Witness ==
    /\ Done
    /\ Factorial(Len(cities)) > 5
    /\ Len(fetched) = 5

\* C16: ranking changes no option.  The returned list has the options that
\* existed before the sort, each as often as before and with every field as it
\* was: it is a permutation of the list the loop built.
C16_RankingPermutes ==
    (Done /\ Len(cities) >= 1) =>
        /\ Len(result) = Len(itinerary_options)
        /\ Multiset(result) = Multiset(itinerary_options)

\* C16 witness: the sort moved options, so the returned list is not the list
\* the loop built.
C16_Witness ==
    /\ Done
    /\ Len(result) >= 3
    /\ result # itinerary_options

\* C17: the tool is a function of its arguments and of the providers'
\* answers.  A second call with the same arguments, to which the providers
\* answer as they did to the first, returns what the first call returned,
\* although it starts where the first call left off: the first call left
\* nothing behind that the second could observe.
C17_RepeatedCallSameResult ==
    (Done /\ call_no = 2) => result = first.result

\* C17 witness: a repeated call has returned, after a flight search that gave
\* prices and after dropping a candidate, the non-empty list of the first call.
C17_Witness ==
    /\ Done
    /\ call_no = 2
    /\ flight_costs # <<>>
    /\ Len(result) >= 1
    /\ Len(result) < Len(selected_permutations)
    /\ result = first.result

\* C18: for an output the executor returned, success is False exactly when
\* the output has "Thought:" but neither "Action:" nor "Final Answer:", or has
\* an "Invalid Format" marker; for every other output success is True.
C18_FailureExactlyOnParsingError ==
    (apc = "returned" /\ ~agent_outcome.raised) =>
        (agent_response.success = FALSE
           <=> \/ /\ Contains(agent_outcome.output, <<"Thought:">>)
                  /\ ~Contains(agent_outcome.output, <<"Action:">>)
                  /\ ~Contains(agent_outcome.output, <<"Final Answer:">>)
               \/ Contains(agent_outcome.output, <<"Invalid Format">>))

\* C19: what is saved is what is read back.  Every stored itinerary, read
\* with to_dict, has the user_id, name, distance and carbon it was saved with
\* and its cities as the same list in the same order, the empty list
\* included; a later save changes none of the earlier ones.
C19_SaveReadRoundTrip ==
    /\ Len(saved_args) = Len(itineraries)
    /\ \A k \in 1..Len(itineraries) :
         LET d == ToDict(itineraries[k])
             a == saved_args[k]
         IN  /\ d.id = k
             /\ d.user_id = a.user_id
             /\ d.name = a.name
             /\ d.cities = a.cities
             /\ d.total_distance_km = a.total_distance_km
             /\ d.carbon_emissions_kg = a.carbon_emissions_kg

\* C19 witness: an itinerary with the empty city list and one with several
\* cities are stored.
C19_Witness ==
    /\ Len(itineraries) = 2
    /\ \E j, k \in 1..2 :
         /\ saved_args[j].cities = PyList(<<>>)
         /\ Len(saved_args[k].cities.val) >= 2
         /\ ToDict(itineraries[k]).cities.val[2] = "Lyon"

\* C20: a save_itinerary call with a user_id that matches no existing user,
\* or with cities that is not a list, ends in an error and stores nothing;
\* every stored itinerary has an existing user's id and a list as cities.
C20_InvalidSaveRejected ==
    /\ ~last_save.none =>
         ((last_save.args.user_id \notin UserIds \/ ~last_save.args.cities.isList)
            => (last_save.outcome # "Successfully saved" /\ last_save.id = 0))
    /\ \A k \in 1..Len(itineraries) :
         /\ itineraries[k].user_id \in UserIds
         /\ ToDict(itineraries[k]).cities.isList

\* position of a city in the input list, and the order in which
\* permutations are generated: lexicographic by input position
PositionIn(c, x) == CHOOSE k \in 1..Len(c) : c[k] = x

GeneratedBefore(c, p, q) ==
    \E k \in 1..Len(p) :
        /\ \A j \in 1..(k - 1) : p[j] = q[j]
        /\ PositionIn(c, p[k]) < PositionIn(c, q[k])

AllOrderings(c) ==
    {p \in [1..Len(c) -> Range(c)] : \A a, b \in 1..Len(c) : a # b => p[a] # p[b]}

\* C21 as claimed: when n! exceeds 5 the selection is the first three
\* permutations in generation order, then the reversed input order, then the
\* middle-swap variant of the input order.
C21_DiverseSelection ==
    (pc \in {"loop", "done"} /\ Factorial(Len(cities)) > 5) =>
        /\ Len(selected_permutations) = 5
        /\ selected_permutations[1] = cities
        /\ GeneratedBefore(cities, selected_permutations[1], selected_permutations[2])
        /\ GeneratedBefore(cities, selected_permutations[2], selected_permutations[3])
        /\ \A p \in AllOrderings(cities) :
             p \notin {selected_permutations[k] : k \in 1..3}
               => GeneratedBefore(cities, selected_permutations[3], p)
        /\ selected_permutations[4] = Reversed(cities)
        /\ selected_permutations[5] = MiddleSwap(cities)

\* C21 amended: when n! exceeds 5 the selection is the first five
\* permutations in generation order and nothing else: each selected ordering
\* is generated before the next, the reversed input order is left out, and
\* every ordering left out is generated after the fifth (compared with all
\* orderings as the loop over the selection starts; the selection does not
\* change after that).
C21_FirstFiveInGenerationOrder ==
    (pc \in {"loop", "done"} /\ Factorial(Len(cities)) > 5) =>
        /\ Len(selected_permutations) = 5
        /\ selected_permutations[1] = cities
        /\ \A k \in 1..4 :
             GeneratedBefore(cities, selected_permutations[k], selected_permutations[k + 1])
        /\ Reversed(cities) \notin Range(selected_permutations)
        /\ (pc = "loop" /\ i = 0) =>
             \A p \in AllOrderings(cities) :
               p \notin Range(selected_permutations)
                 => GeneratedBefore(cities, selected_permutations[5], p)

\* C21 witness: three cities, six orderings, the fifth selected is the one
\* that starts with the last city and the reversed order was left out.
C21_Witness ==
    /\ Done
    /\ cities = <<"Paris", "Lyon", "Nice">>
    /\ selected_permutations[5] = <<"Nice", "Paris", "Lyon">>
    /\ Reversed(cities) \notin Range(selected_permutations)

\* C22: Balanced scheduling of m POIs over d days gives exactly d day plans,
\* numbered 1..d; each of the days 1..d-1 holds exactly floor(m/d) POIs, the
\* days taken one after the other are the input list in input order, so the
\* last day holds all the rest; 5 POIs over 3 days give [p0], [p1],
\* [p2, p3, p4].
C22_BalancedShape ==
    (spc = "scheduled" /\ strategy = "balanced") =>
        /\ Len(day_plans) = day_count
        /\ \A k \in 1..day_count : day_plans[k].day = k
        /\ \A k \in 1..(day_count - 1) :
             Len(day_plans[k].pois) = Len(poi_list) \div day_count
        /\ Flatten(day_plans) = poi_list
        /\ (Len(poi_list) = 5 /\ day_count = 3) =>
             /\ day_plans[1].pois = <<poi_list[1]>>
             /\ day_plans[2].pois = <<poi_list[2]>>
             /\ day_plans[3].pois = <<poi_list[3], poi_list[4], poi_list[5]>>

\* C22 witness: five POIs balanced over three days, the last day with three.
C22_Witness ==
    /\ spc = "scheduled"
    /\ strategy = "balanced"
    /\ Len(poi_list) = 5
    /\ day_count = 3
    /\ Len(day_plans[3].pois) = 3

\* the POIs of day k beyond its priority POI
SecondaryOf(plans, k, np) ==
    IF k <= np /\ plans[k].pois # <<>> THEN Tail(plans[k].pois) ELSE plans[k].pois

RECURSIVE SecondariesFrom(_, _, _)
SecondariesFrom(plans, k, np) ==
    IF k > Len(plans) THEN <<>>
    ELSE SecondaryOf(plans, k, np) \o SecondariesFrom(plans, k + 1, np)

\* C23: Priority-weighted scheduling puts the i-th input POI first on day i
\* for every i <= min(3, m), gives each of those days at most one further
\* POI, and the further POIs of all days, read day after day, are the POIs
\* after the first min(3, m) taken in input order; for every (m, d), d < 3
\* included.
C23_PriorityWeightedShape ==
    (spc = "scheduled" /\ strategy = "priority_weighted") =>
        LET m == Len(poi_list)
            np == Min(3, m)
            placed == SecondariesFrom(day_plans, 1, np)
        IN  /\ \A k \in 1..np :
                 /\ k <= Len(day_plans)
                 /\ day_plans[k].pois # <<>>
                 /\ day_plans[k].pois[1] = poi_list[k]
                 /\ Len(day_plans[k].pois) <= 2
            /\ Len(placed) <= m - np
            /\ placed = SubSeq(poi_list, np + 1, np + Len(placed))

\* C24: a candidate route with a city whose coordinates did not resolve has
\* no distance request issued for any leg, its lookup returns nothing, and no
\* option with its id, zero-distance or other, is among the options collected
\* or returned.
C24_UnresolvedCoordinatesDiscarded ==
    \A k \in 1..Len(lookups) :
        ~lookups[k].coords =>
            /\ lookups[k].distance_requests = 0
            /\ fetched[k].none
            /\ \A n \in 1..Len(itinerary_options) : itinerary_options[n].id # k
            /\ Done => \A n \in 1..Len(result) : IsError(result[n]) \/ result[n].id # k

C24_Witness ==
    /\ Done
    /\ \E k \in 1..Len(lookups) : ~lookups[k].coords
    /\ \E k \in 1..Len(lookups) : lookups[k].coords /\ lookups[k].distance_requests = 2
    /\ Len(result) >= 1
    /\ ~IsError(result[1])

PositivePrices ==
    {flights[k].cents : k \in {n \in 1..Len(flights) : flights[n].numeric /\ flights[n].cents > 0}}

\* C26: the flight_cost of every returned option is 0 or one of the strictly
\* positive prices the flight provider returned for this request; it is 0
\* exactly when no flight context was supplied, an airport code did not
\* resolve, or the provider returned no strictly positive numeric price.
C26_FlightCostFromProvider ==
    Done =>
        \A k \in RouteOptions :
            LET fc == result[k].costs.flight_cost
                searched == "flights" \in called
            IN  /\ fc = 0 \/ (searched /\ fc \in PositivePrices)
                /\ fc = 0 <=>
                     \/ ~HasFlightContext(request.flight)
                     \/ "iata" \in called /\ ~searched
                     \/ searched /\ PositivePrices = {}

C26_Witness ==
    /\ Done
    /\ Len(flights) = 2
    /\ Len(flight_costs) = 1
    /\ Cardinality(RouteOptions) = 2
    /\ \A k \in RouteOptions : result[k].costs.flight_cost = flight_costs[1]

\* C30: in every returned list of route options the ids are pairwise distinct
\* values in 1..5, and the id of an option is 1 + the 0-based position of its
\* ordering in the generated selection, whatever the option's rank.
C30_IdIsSelectionPosition ==
    Done =>
        /\ \A k \in RouteOptions :
             /\ result[k].id \in 1..MaxPermutations
             /\ result[k].id <= Len(selected_permutations)
             /\ result[k].cities = selected_permutations[result[k].id]
        /\ \A j, k \in RouteOptions : j # k => result[j].id # result[k].id

\* ids neither contiguous nor in ranked order: <<4, 1>> or the like
C30_Witness ==
    /\ Done
    /\ Len(result) = 2
    /\ RouteOptions = {1, 2}
    /\ result[1].id > result[2].id + 1
    /\ result[1].carbon_emissions_kg < result[2].carbon_emissions_kg

\* C29: invoke_agent_with_history always returns, whether the agent raised or
\* not, a record with output, intermediate_steps and success; success is
\* False exactly when the record has an error field, and then
\* intermediate_steps is empty.
C29_ResponseShape ==
    /\ apc = "ready" => ENABLED InvokeAgentWithHistory
    /\ apc = "returned" =>
         /\ {"output", "intermediate_steps", "success"} \subseteq DOMAIN agent_response
         /\ agent_response.success \in BOOLEAN
         /\ agent_response.success = FALSE <=> "error" \in DOMAIN agent_response
         /\ "error" \in DOMAIN agent_response => agent_response.intermediate_steps = <<>>

C29_Witness ==
    /\ apc = "returned"
    /\ agent_outcome.raised
    /\ agent_response.success = FALSE
    /\ agent_response.error = agent_outcome.message
    /\ agent_response.intermediate_steps = <<>>

\* C27: under every interleaving of concurrent create_or_get_user calls for
\* one auth0_sub at most one row exists for it, every call returns that user
\* without an error, and a call without name (email) never changes the
\* stored name (email).
C27_ConcurrentCreateOrGet ==
    /\ [](/\ Cardinality({k \in 1..Len(users) : users[k].auth0_sub = Auth0Sub}) <= 1
          /\ \A c \in Callers :
               /\ callers[c].at # "IntegrityError"
               /\ callers[c].at = "returned" => callers[c].user[1].id = users[1].id)
    /\ [][\A c \in Callers :
            (callers'[c].at = "returned" /\ callers[c].at # "returned" /\ users # <<>>) =>
                /\ callers[c].name = "" => users'[1].name = users[1].name
                /\ callers[c].email = "" => users'[1].email = users[1].email]_vars

RECURSIVE IsSubsequence(_, _)
IsSubsequence(a, b) ==
    IF a = <<>> THEN TRUE
    ELSE IF b = <<>> THEN FALSE
    ELSE IF a[1] = b[1] THEN IsSubsequence(Tail(a), Tail(b))
    ELSE IsSubsequence(a, Tail(b))

\* the flight options among the elements of the returned list
ReturnedFlightOptions == SelectSeq(flight_options, LAMBDA o : "airline" \in DOMAIN o)

\* C28: find_flight_options returns at most 10 flight options, taken in
\* provider order from the first 50 offers only, none of an excluded airline,
\* and no airline appears more than once among them.
C28_FlightOptionsDistinctAirlines ==
    fpc = "returned" =>
        LET opts == ReturnedFlightOptions
        IN  /\ Len(opts) <= MaxFlightOptions
            /\ IsSubsequence(opts, SubSeq(offers, 1, Min(FirstOffers, Len(offers))))
            /\ \A k \in 1..Len(opts) : opts[k].airline \notin ExcludedAirlines
            /\ \A j, k \in 1..Len(opts) : j # k => opts[j].airline # opts[k].airline

====
